---- MODULE Spec2Model ----
(***************************************************************************)
(* Model of EnvironmentMeter.ino: a sound-level / environment meter that   *)
(* runs setup() once and then loop() forever (the Arduino main program).   *)
(*                                                                         *)
(* Conventions                                                             *)
(*  - A String is a sequence of one-character strings.                     *)
(*  - A float that holds a sound level is kept exactly, as an integer      *)
(*    number of 1/LevelScale dB.  LevelScale = lcm(4096, 100), so every    *)
(*    level an ADC sample can produce and every level with two decimals    *)
(*    is an integer.  The rounding of the C++ double/float arithmetic is   *)
(*    below 1e-5 dB and monotone; no sample lies that close to a           *)
(*    threshold, so the comparisons are the same as on the exact value.    *)
(*  - A float that is only printed (the BME280 readings) is kept in        *)
(*    hundredths, the two decimals String(float) prints.                   *)
(***************************************************************************)
EXTENDS Integers, Sequences, FiniteSets, TLC

\* ------------------------------------------------------------------ bounds
MaxStrLen == 3        \* longest generated input string for padString
MaxPadLen == 7        \* largest generated minimum length for padString
HeapChars == 30       \* characters a String can hold before concat fails
MinTestLevel == 0     \* classifier inputs, in hundredths of a dB
MaxTestLevel == 16500

\* --------------------------------------------------------- program constants
COLOR_RGB565_BLACK == 0
COLOR_RGB565_GREEN == 2016
COLOR_RGB565_RED == 63488
COLOR_RGB565_ORANGE == 64800

LevelScale == 4096 * 25           \* 1 dB, in the unit dbValue is kept in
VREF_TENTHS == 33                  \* VREF 3.3, in tenths of a volt
DB_CONV_MULTIPLIER == 50
THRESHOLD_MAX_GREEN == 75 * LevelScale
THRESHOLD_MAX_YELLOW == 120 * LevelScale
BME_SENSOR_DETECTED_SENTINEL == 96
DB_TEXT_WIDTH == 6
DETAIL_TEXT_WIDTH == 22
UIntModulus == 2 ^ 16              \* unsigned int of the 16-bit boards

Boards == {"STM32F4", "AVR"}
ADCResolution(b) == IF b = "STM32F4" THEN 4096 ELSE 1024
ADCMax(b) == ADCResolution(b) - 1

\* ------------------------------------------------------------ string literals
LABEL_TEMP == <<" ", " ", "T", "e", "m", "p", ":", " ", " ">>
LABEL_HUMIDITY == <<" ", " ", "R", "H", ":", " ", " ", " ", " ">>
LABEL_PRESSURE == <<" ", " ", "P", "r", "e", "s", ".", ":", " ">>
LABEL_ALTITUDE == <<" ", " ", "A", "l", "t", ".", ":", " ", " ">>
LABEL_LUM == <<" ", " ", "L", "u", "m", ".", ":", " ", " ">>
SENSOR_ERROR_LITERAL == <<"S", "e", "n", "s", "o", "r", " ", "e", "r", "r", "o", "r", "!", " ">>
MSG_NOT_FOUND == <<"B", "M", "E", "2", "8", "0", " ", "S", "e", "n", "s", "o", "r", " ", "n", "o", "t", " ", "f", "o", "u", "n", "d", "!">>
MSG_DETECTED == <<"B", "M", "E", "2", "8", "0", " ", "S", "e", "n", "s", "o", "r", " ", "d", "e", "t", "e", "c", "t", "e", "d", "!">>
DB_PREFIX == <<"D", "B", ":", " ">>
EASTER_EGG == <<"M", "e", "o", "w", "!", " ", "<", "3">>
CRLF == <<"\r", "\n">>

\* ------------------------------------------------------------------ inputs
\* Values g_bmeSensor.init() can hand back (the chip-id byte read over I2C):
\* the BME280 id, zero, a small value, and the 0xFF of an empty bus.
InitResults == {BME_SENSOR_DETECTED_SENTINEL, 0, 14, 255}

\* One set of readings of the BME280, in hundredths.
BmeReadings ==
    { [temp |-> 2345, humidity |-> 4567, pressure |-> 101325, altitude |-> 12345],
      [temp |-> -512, humidity |-> 10000, pressure |-> 98760, altitude |-> -1250] }

\* Samples around the colour thresholds, the ends of the range and the
\* changes of the printed width, for each ADC resolution.
KeySamples(b) ==
    IF b = "STM32F4"
    THEN {0, 1, 248, 249, 1861, 1862, 2048, 2482, 2483, 2978, 2979, 4095}
    ELSE {0, 1, 62, 63, 465, 466, 512, 620, 621, 744, 745, 1023}

KeyLuminosities(b) == {7, ADCMax(b)}

\* What a read past the end of a string literal can yield: whatever bytes
\* follow it in memory, up to the next NUL.
OutOfBoundsStrings ==
    { <<"?">>,
      <<"#", "#", "#", "#", "#", "#", "#", "#", "#", "#", "#", "#",
        "#", "#", "#", "#", "#", "#", "#", "#", "#", "#", "#", "#">> }

\* ------------------------------------------------------------------- state
VARIABLES
    pc,               \* "setup", "loop" (about to run loop()), "delay" (in delay(500))
    board,            \* the board the sketch was compiled for
    soundPin,         \* what analogRead(SoundSensorPin) returns now
    lumPin,           \* what analogRead(PA2) returns now
    g_bmeDetected,    \* the global of that name
    initCalls,        \* number of calls of g_bmeSensor.init() so far
    dbValue,          \* loop()'s locals, as the last cycle left them
    luminosity,
    backColor,
    dbValueString,
    outputTemp,
    outputHumidity,
    outputPressure,
    outputAltitude,
    outputLum,
    screenDb,         \* the character cells of the large readout: [ch, back]
    screenDetail,     \* the text last drawn at (0, 100)
    screenEgg,        \* the text last drawn at (260, 230)
    serial,           \* the lines written to Serial by the last setup()/loop()
    padPc,            \* padString run on its own: position of the caller
    padStr,           \* *p_string
    padLen,           \* p_length
    padChar,          \* p_paddingChar
    padOrig,          \* *p_string when the first call started
    padFirst          \* *p_string when the first call returned

progVars == <<pc, board, soundPin, lumPin, g_bmeDetected, initCalls, dbValue,
              luminosity, backColor, dbValueString, outputTemp, outputHumidity,
              outputPressure, outputAltitude, outputLum, screenDb, screenDetail,
              screenEgg, serial>>
padVars == <<padPc, padStr, padLen, padChar, padOrig, padFirst>>
vars == <<progVars, padVars>>

\* ----------------------------------------------------------------- helpers
Max(a, b) == IF a >= b THEN a ELSE b

Digit(d) == <<"0", "1", "2", "3", "4", "5", "6", "7", "8", "9">>[d + 1]

RECURSIVE NatToString(_)
NatToString(n) ==
    IF n < 10 THEN <<Digit(n)>> ELSE NatToString(n \div 10) \o <<Digit(n % 10)>>

\* String += int
intToString(n) == IF n < 0 THEN <<"-">> \o NatToString(-n) ELSE NatToString(n)

\* String += float: two decimals, no padding.  h is the value in hundredths.
floatToString(h) ==
    LET a == IF h < 0 THEN -h ELSE h
    IN  (IF h < 0 THEN <<"-">> ELSE <<>>)
            \o NatToString(a \div 100) \o <<".">>
            \o <<Digit((a % 100) \div 10), Digit(a % 10)>>

\* A level rounded to the two decimals that are printed (half up).
roundToHundredths(v) == (v + LevelScale \div 200) \div (LevelScale \div 100)

\* Line 196: (analogRead(pin) / ADCResolution * VREF) * DB_CONV_MULTIPLIER.
getDecibelFromVoltage_Int16(sample, resolution) ==
    (((sample * VREF_TENTHS * DB_CONV_MULTIPLIER) % 65536)
        * (LevelScale \div resolution)) \div 10

getDecibelFromVoltage_NoVref(sample, resolution) ==
    sample * DB_CONV_MULTIPLIER * (LevelScale \div resolution)

getDecibelFromVoltage(sample, resolution) ==
    (sample * VREF_TENTHS * DB_CONV_MULTIPLIER * (LevelScale \div resolution)) \div 10

\* Lines 271-280: the background colour of the readout.
selectBackColor_OpenBounds(level) ==
    IF level > THRESHOLD_MAX_GREEN /\ level < THRESHOLD_MAX_YELLOW
    THEN COLOR_RGB565_ORANGE
    ELSE IF level > THRESHOLD_MAX_YELLOW THEN COLOR_RGB565_RED
         ELSE COLOR_RGB565_GREEN

selectBackColor(level) ==
    IF level >= THRESHOLD_MAX_GREEN /\ level < THRESHOLD_MAX_YELLOW
    THEN COLOR_RGB565_ORANGE
    ELSE IF level >= THRESHOLD_MAX_YELLOW THEN COLOR_RGB565_RED
         ELSE COLOR_RGB565_GREEN

\* Line 207 compares String::length(), an unsigned int, with the int p_length:
\* the int is converted to unsigned, so a negative length becomes a huge one.
toUnsigned(n) == IF n < 0 THEN n + UIntModulus ELSE n

padLoopCond_Short(s, n) == Len(s) + 1 < toUnsigned(n)

padLoopCond(s, n) == Len(s) < toUnsigned(n)

\* String::concat(char): appends, or leaves the String as it is when the
\* buffer cannot grow; padString ignores the result.
concat(s, c) == IF Len(s) < HeapChars THEN Append(s, c) ELSE s

\* Lines 206-211, for the lengths loop() passes (all within the heap): while
\* the condition holds, concat and test again.  (The String is bound as str so
\* that each iteration evaluates it once.)
padString_NoPad(s, n, c) == s

RECURSIVE padString(_, _, _)
padString(s, n, c) ==
    LET iterate(str) ==
            IF padLoopCond(str, n) THEN padString(concat(str, c), n, c) ELSE str
    IN  CHOOSE result \in { iterate(str) : str \in {s} } : TRUE

\* Line 264: "Sensor error! " + g_bmeDetected adds the int to the address of
\* the literal.  Within the literal this is its tail from that offset (the
\* empty string at its end); past it the read is out of bounds.
literalPlusInt(lit, k) ==
    IF k \in 0..Len(lit) THEN {SubSeq(lit, k + 1, Len(lit))} ELSE OutOfBoundsStrings

\* Lines 223-229: print s from the first cell of a row, each character on the
\* given background; cells beyond the text keep what they showed.
displayString(cells, s, back) ==
    [i \in 1..Max(Len(cells), Len(s)) |->
        IF i <= Len(s) THEN [ch |-> s[i], back |-> back] ELSE cells[i]]

\* ---------------------------------------------------------------- program
\* padString's own variables, while the sketch runs.
PadIdle ==
    /\ padPc = "idle"
    /\ padStr = <<>>
    /\ padLen = 0
    /\ padChar = " "
    /\ padOrig = <<>>
    /\ padFirst = <<>>

\* The sketch's variables before setup(): the globals as initialised at
\* lines 141-145, nothing drawn or printed yet.
ProgramAtReset ==
    /\ pc = "setup"
    /\ g_bmeDetected = 0
    /\ initCalls = 0
    /\ dbValue = 0
    /\ luminosity = 0
    /\ backColor = COLOR_RGB565_BLACK
    /\ dbValueString = <<>>
    /\ outputTemp = <<>>
    /\ outputHumidity = <<>>
    /\ outputPressure = <<>>
    /\ outputAltitude = <<>>
    /\ outputLum = <<>>
    /\ screenDb = <<>>
    /\ screenDetail = <<>>
    /\ screenEgg = <<>>
    /\ serial = <<>>

Init ==
    /\ board \in Boards
    /\ soundPin \in KeySamples(board)
    /\ lumPin \in KeyLuminosities(board)
    /\ ProgramAtReset
    /\ PadIdle

\* setup(), lines 151-185.
Setup ==
    /\ pc = "setup"
    /\ \E id \in InitResults :
        /\ g_bmeDetected' = id
        /\ serial' = IF id # BME_SENSOR_DETECTED_SENTINEL
                     THEN <<MSG_NOT_FOUND>>
                     ELSE <<MSG_DETECTED>>
    /\ initCalls' = initCalls + 1
    /\ screenDb' = <<>>
    /\ screenDetail' = <<>>
    /\ screenEgg' = <<>>
    /\ pc' = "loop"
    /\ UNCHANGED <<board, soundPin, lumPin, dbValue, luminosity, backColor,
                   dbValueString, outputTemp, outputHumidity, outputPressure,
                   outputAltitude, outputLum>>
    /\ UNCHANGED padVars

\* One pass of loop() up to its delay, lines 234-315, for the given readings
\* of the BME280 (r) and the given outcome of line 264 (err).
LoopBody(r, err) ==
    LET detected == g_bmeDetected = BME_SENSOR_DETECTED_SENTINEL
        level == getDecibelFromVoltage(soundPin, ADCResolution(board))
        lum == lumPin
        temp0 == IF detected
                 THEN LABEL_TEMP \o floatToString(r.temp) \o <<"C">>
                 ELSE err
        hum0 == IF detected
                THEN LABEL_HUMIDITY \o floatToString(r.humidity) \o <<"%">>
                ELSE <<>>
        pres0 == IF detected
                 THEN LABEL_PRESSURE \o floatToString(r.pressure) \o <<"h", "P", "a">>
                 ELSE <<>>
        alt0 == IF detected
                THEN LABEL_ALTITUDE \o floatToString(r.altitude) \o <<"m">>
                ELSE <<>>
        lum0 == LABEL_LUM \o intToString(lum)
        back == selectBackColor(level)
        dbText == floatToString(roundToHundredths(level))
        dbStr == padString(dbText, DB_TEXT_WIDTH, " ")
        temp1 == padString(temp0, DETAIL_TEXT_WIDTH, " ")
        hum1 == padString(hum0, DETAIL_TEXT_WIDTH, " ")
        pres1 == padString(pres0, DETAIL_TEXT_WIDTH, " ")
        alt1 == padString(alt0, DETAIL_TEXT_WIDTH, " ")
        lum1 == padString(lum0, DETAIL_TEXT_WIDTH, " ")
    IN  /\ dbValue' = level
        /\ luminosity' = lum
        /\ backColor' = back
        /\ dbValueString' = dbStr
        /\ outputTemp' = temp1
        /\ outputHumidity' = hum1
        /\ outputPressure' = pres1
        /\ outputAltitude' = alt1
        /\ outputLum' = lum1
        /\ screenDb' = displayString(screenDb, dbStr, back)
        /\ screenDetail' = temp1 \o CRLF \o hum1 \o CRLF \o pres1 \o CRLF \o lum1
        /\ screenEgg' = EASTER_EGG
        /\ serial' = << DB_PREFIX \o dbText, temp1, hum1, pres1, alt1, lum1 >>

Loop_RetryInit ==
    /\ pc = "loop"
    /\ \E id \in InitResults :
        /\ g_bmeDetected' = IF g_bmeDetected = BME_SENSOR_DETECTED_SENTINEL
                            THEN g_bmeDetected ELSE id
        /\ initCalls' = IF g_bmeDetected = BME_SENSOR_DETECTED_SENTINEL
                        THEN initCalls ELSE 2
    /\ \E r \in BmeReadings :
        \E err \in literalPlusInt(SENSOR_ERROR_LITERAL, g_bmeDetected) :
            LoopBody(r, err)
    /\ pc' = "delay"
    /\ UNCHANGED <<board, soundPin, lumPin>>
    /\ UNCHANGED padVars

Loop ==
    /\ pc = "loop"
    /\ \E r \in BmeReadings :
        \E err \in literalPlusInt(SENSOR_ERROR_LITERAL, g_bmeDetected) :
            LoopBody(r, err)
    /\ pc' = "delay"
    /\ UNCHANGED <<board, soundPin, lumPin, g_bmeDetected, initCalls>>
    /\ UNCHANGED padVars

\* delay(500) returns and the main program calls loop() again; meanwhile the
\* sound and the light have changed.
Delay ==
    /\ pc = "delay"
    /\ pc' = "loop"
    /\ soundPin' \in KeySamples(board)
    /\ lumPin' \in KeyLuminosities(board)
    /\ UNCHANGED <<board, g_bmeDetected, initCalls, dbValue, luminosity,
                   backColor, dbValueString, outputTemp, outputHumidity,
                   outputPressure, outputAltitude, outputLum, screenDb,
                   screenDetail, screenEgg, serial>>
    /\ UNCHANGED padVars

Next == Setup \/ Loop \/ Delay

Spec == Init /\ [][Next]_vars

\* The main program is `setup(); for (;;) loop();` and nothing else runs, so
\* each step that can be taken is taken.
LiveSpec == Spec /\ WF_vars(Setup) /\ WF_vars(Loop) /\ WF_vars(Delay)

\* --------------------------------------------------- the whole ADC range
\* The same sketch with the sound pin at any sample of the ADC's range.
\* During the delay the sound stays as it is or falls silent.
SweepInit ==
    /\ board \in Boards
    /\ soundPin \in 0..ADCMax(board)
    /\ lumPin = ADCMax(board)
    /\ ProgramAtReset
    /\ PadIdle

DelaySweep ==
    /\ pc = "delay"
    /\ pc' = "loop"
    /\ soundPin' \in {soundPin, 0}
    /\ UNCHANGED <<board, lumPin, g_bmeDetected, initCalls, dbValue,
                   luminosity, backColor, dbValueString, outputTemp,
                   outputHumidity, outputPressure, outputAltitude, outputLum,
                   screenDb, screenDetail, screenEgg, serial>>
    /\ UNCHANGED padVars

SweepNext == Setup \/ Loop \/ DelaySweep

SweepSpec == SweepInit /\ [][SweepNext]_vars

\* ------------------------------------------------- the classifier on its own
\* Lines 271-280 applied to any level with two decimals between the bounds.
TestLevels == { h * (LevelScale \div 100) : h \in MinTestLevel..MaxTestLevel }

ClassifyInit ==
    /\ pc = "classify"
    /\ board = "STM32F4"
    /\ soundPin = 0
    /\ lumPin = 0
    /\ g_bmeDetected = 0
    /\ initCalls = 0
    /\ dbValue \in TestLevels
    /\ luminosity = 0
    /\ backColor = COLOR_RGB565_BLACK
    /\ dbValueString = <<>>
    /\ outputTemp = <<>>
    /\ outputHumidity = <<>>
    /\ outputPressure = <<>>
    /\ outputAltitude = <<>>
    /\ outputLum = <<>>
    /\ screenDb = <<>>
    /\ screenDetail = <<>>
    /\ screenEgg = <<>>
    /\ serial = <<>>
    /\ PadIdle

Classify ==
    /\ pc = "classify"
    /\ backColor' = selectBackColor(dbValue)
    /\ pc' = "classified"
    /\ UNCHANGED <<board, soundPin, lumPin, g_bmeDetected, initCalls, dbValue,
                   luminosity, dbValueString, outputTemp, outputHumidity,
                   outputPressure, outputAltitude, outputLum, screenDb,
                   screenDetail, screenEgg, serial>>
    /\ UNCHANGED padVars

ClassifyNext == Classify

ClassifySpec == ClassifyInit /\ [][ClassifyNext]_vars

\* --------------------------------------------------- padString on its own
\* padString(&s, n, c) called twice in a row on the same String, one loop
\* iteration per step.
PadAlphabet == {"a", " "}
PadChars == {" ", "a"}
PadLengths == -2..MaxPadLen
PadStrings ==
    UNION { [1..k -> PadAlphabet] : k \in 0..MaxStrLen }
        \cup { <<"a", "b", "c">>, <<"a", "b", "c", "d", "e", "f", "g", "h">> }

PadInit ==
    /\ padPc = "call1"
    /\ padStr \in PadStrings
    /\ padLen \in PadLengths
    /\ padChar \in PadChars
    /\ padOrig = padStr
    /\ padFirst = <<>>
    /\ board = "STM32F4"
    /\ soundPin = 0
    /\ lumPin = 0
    /\ pc = "idle"
    /\ g_bmeDetected = 0
    /\ initCalls = 0
    /\ dbValue = 0
    /\ luminosity = 0
    /\ backColor = COLOR_RGB565_BLACK
    /\ dbValueString = <<>>
    /\ outputTemp = <<>>
    /\ outputHumidity = <<>>
    /\ outputPressure = <<>>
    /\ outputAltitude = <<>>
    /\ outputLum = <<>>
    /\ screenDb = <<>>
    /\ screenDetail = <<>>
    /\ screenEgg = <<>>
    /\ serial = <<>>

\* Lines 207-210: the condition holds and the body runs once.
PadStep_DoWhile ==
    /\ padPc \in {"call1", "call2"}
    /\ \/ padLoopCond(padStr, padLen)
       \/ padStr = (IF padPc = "call1" THEN padOrig ELSE padFirst)
    /\ padStr' = concat(padStr, padChar)
    /\ UNCHANGED <<padPc, padLen, padChar, padOrig, padFirst>>
    /\ UNCHANGED progVars

PadStep ==
    /\ padPc \in {"call1", "call2"}
    /\ padLoopCond(padStr, padLen)
    /\ padStr' = concat(padStr, padChar)
    /\ UNCHANGED <<padPc, padLen, padChar, padOrig, padFirst>>
    /\ UNCHANGED progVars

\* Lines 207, 211: the condition fails and padString returns.
PadReturn ==
    /\ padPc \in {"call1", "call2"}
    /\ ~padLoopCond(padStr, padLen)
    /\ padPc' = IF padPc = "call1" THEN "ret1" ELSE "ret2"
    /\ padFirst' = IF padPc = "call1" THEN padStr ELSE padFirst
    /\ UNCHANGED <<padStr, padLen, padChar, padOrig>>
    /\ UNCHANGED progVars

\* The caller passes the padded String to padString again.
PadAgain ==
    /\ padPc = "ret1"
    /\ padPc' = "call2"
    /\ UNCHANGED <<padStr, padLen, padChar, padOrig, padFirst>>
    /\ UNCHANGED progVars

PadNext == PadStep \/ PadReturn \/ PadAgain

PadSpec == PadInit /\ [][PadNext]_vars

\* ============================================================== properties
IsBlank(s) == \A i \in 1..Len(s) : s[i] = " "

StartsWith(s, prefix) ==
    Len(s) >= Len(prefix) /\ SubSeq(s, 1, Len(prefix)) = prefix

\* Text followed by nothing but the padding character.
IsPadded(s, text, c) ==
    /\ StartsWith(s, text)
    /\ \A i \in (Len(text) + 1)..Len(s) : s[i] = c

\* The colour the bands of section 4.1 give a level.
BandColor(level) ==
    IF level < 75 * LevelScale THEN COLOR_RGB565_GREEN
    ELSE IF level < 120 * LevelScale THEN COLOR_RGB565_ORANGE
    ELSE COLOR_RGB565_RED

BandRank(color) ==
    IF color = COLOR_RGB565_GREEN THEN 0
    ELSE IF color = COLOR_RGB565_ORANGE THEN 1 ELSE 2

Hundredths(h) == h * (LevelScale \div 100)

C2_SensorUnavailableFields ==
    (pc = "delay" /\ g_bmeDetected # BME_SENSOR_DETECTED_SENTINEL) =>
        /\ StartsWith(outputTemp, SubSeq(SENSOR_ERROR_LITERAL, 1, 13))
        /\ IsBlank(outputHumidity)
        /\ IsBlank(outputPressure)
        /\ IsBlank(outputAltitude)
        /\ dbValue = getDecibelFromVoltage(soundPin, ADCResolution(board))
        /\ IsPadded(outputLum, LABEL_LUM \o intToString(lumPin), " ")
        /\ Len(outputLum) = DETAIL_TEXT_WIDTH

\* C3: the sensor is initialised exactly once, in setup(), and g_bmeDetected
\* never changes afterwards; whatever init() returned, every cycle of loop()
\* reaches its delay and is followed by another cycle, and each cycle reads,
\* displays and prints the sound level and the luminosity again.
C3_InitOnceLoopForever ==
    /\ [](pc # "setup" => initCalls = 1)
    /\ [][pc # "setup" => g_bmeDetected' = g_bmeDetected /\ initCalls' = initCalls]_vars
    /\ [](pc = "loop" => <>(pc = "delay"))
    /\ [](pc = "delay" => <>(pc = "loop"))
    /\ [][(pc = "loop" /\ pc' = "delay") =>
            /\ dbValue' = getDecibelFromVoltage(soundPin, ADCResolution(board))
            /\ luminosity' = lumPin
            /\ StartsWith(dbValueString', floatToString(roundToHundredths(dbValue')))
            /\ Len(screenDb') >= Len(dbValueString')
            /\ \A i \in 1..Len(dbValueString') : screenDb'[i].ch = dbValueString'[i]
            /\ Len(serial') = 6
            /\ serial'[1] = DB_PREFIX \o floatToString(roundToHundredths(dbValue'))
            /\ StartsWith(serial'[6], LABEL_LUM \o intToString(lumPin))]_vars

C3_Witness ==
    /\ pc = "loop"
    /\ g_bmeDetected = 255
    /\ initCalls = 1
    /\ Len(serial) = 6

C5_PadNeverTruncates ==
    /\ StartsWith(padStr, padOrig)
    /\ padPc \in {"ret1", "call2", "ret2"} =>
           /\ Len(padFirst) >= padLen
           /\ StartsWith(padFirst, padOrig)
           /\ (Len(padOrig) >= padLen => padFirst = padOrig)

C5_Witness ==
    /\ padPc = "ret1"
    /\ padOrig = <<"a", "b", "c", "d", "e", "f", "g", "h">>
    /\ padLen = 6
    /\ padStr = padOrig

\* C6: padding is idempotent: padString applied again to its own result,
\* with the same length and character, leaves it as it is.
C6_PadIdempotent ==
    padPc = "ret2" => padStr = padFirst

C6_Witness ==
    /\ padPc = "ret2"
    /\ padOrig = <<"a", "b", "c">>
    /\ padLen = 6
    /\ Len(padStr) = 6

\* C7: the level does not decrease when the sample increases, and neither
\* does the band: the level and band of each sample are not below those of
\* the sample just under it, of half of it and of zero.
C7_LevelMonotone ==
    pc = "delay" =>
        \A s \in {0, soundPin \div 2, Max(soundPin - 1, 0)} :
            LET lower == getDecibelFromVoltage(s, ADCResolution(board))
            IN  /\ lower <= dbValue
                /\ BandRank(selectBackColor(lower)) <= BandRank(backColor)

C7_Witness ==
    /\ pc = "delay"
    /\ board = "STM32F4"
    /\ soundPin = 1862
    /\ backColor = COLOR_RGB565_ORANGE
    /\ selectBackColor(getDecibelFromVoltage(1861, 4096)) = COLOR_RGB565_GREEN

\* C8: each cycle writes six lines to Serial, "DB: <level>" first, then the
\* temperature, humidity, pressure, altitude and luminosity lines, and the
\* altitude line is blank whether or not the sensor was detected.
C8_SerialLines ==
    pc = "delay" =>
        /\ Len(serial) = 6
        /\ serial[1] = DB_PREFIX \o floatToString(roundToHundredths(dbValue))
        /\ serial[2] = outputTemp
        /\ serial[3] = outputHumidity
        /\ serial[4] = outputPressure
        /\ serial[5] = outputAltitude
        /\ serial[6] = outputLum
        /\ StartsWith(serial[6], LABEL_LUM)
        /\ IsBlank(serial[5])

\* C9: for every sample of the ADC's range the decibel String handed to the
\* display is exactly 6 characters, the level with two decimals and then
\* spaces, and the readout on the screen is those 6 characters and nothing
\* left over from an earlier one.
C9_ReadoutWidth ==
    pc = "delay" =>
        /\ Len(dbValueString) = 6
        /\ IsPadded(dbValueString, floatToString(roundToHundredths(dbValue)), " ")
        /\ Len(screenDb) = 6
        /\ \A i \in 1..6 : screenDb[i].ch = dbValueString[i]

C9_Witness ==
    /\ pc = "delay"
    /\ soundPin = 0
    /\ luminosity = 4095
    /\ dbValueString = <<"0", ".", "0", "0", " ", " ">>
    /\ Len(serial) = 6

\* C10: padString stops, having appended exactly max(0, n - length(s))
\* copies of c: it never appends more than that, every iteration of its
\* loop makes the String longer, and on return the String is the original
\* followed by padding only, max(length(s), n) long.
C10_PadExactly ==
    LET need == Max(0, padLen - Len(padOrig))
    IN  /\ Len(padStr) - Len(padOrig) <= need
        /\ (padPc \in {"call1", "call2"} /\ padLoopCond(padStr, padLen))
               => concat(padStr, padChar) # padStr
        /\ padPc \in {"ret1", "call2", "ret2"} =>
               /\ Len(padFirst) = Len(padOrig) + need
               /\ IsPadded(padFirst, padOrig, padChar)

====
